---- MODULE Spec2Model ----
(***************************************************************************)
(* Emergency-incident dashboard: the client-side incident store            *)
(* (EmergencyProvider), its live-update timer and the mock authentication  *)
(* provider (AuthProvider), modelled as a state machine.                   *)
(*                                                                         *)
(* An optional field of a record (verifiedAt?, verifiedBy?, duplicateOf?)  *)
(* and a nullable state (user) is a sequence of length at most one:        *)
(* <<>> is undefined/null, <<x>> is the value x.                           *)
(***************************************************************************)
EXTENDS Integers, Sequences, FiniteSets, TLC

VARIABLES
    incidents,      \* useState<Incident[]>: sequence of incident records
    activityLogs,   \* useState<ActivityLog[]>: newest first
    adminNotes,     \* useState<AdminNote[]>: newest first
    isLiveUpdates,  \* useState(true): the interval effect runs only while TRUE
    now,            \* the wall clock read by Date.now() / new Date()
    user,           \* AuthProvider useState<User | null>
    isLoading,      \* AuthProvider useState(false)
    pendingLogins,  \* login() calls awaiting their 1000 ms timer, oldest first
    notifications,  \* useState<Notification[]>
    dashboardStats, \* useState<DashboardStats>
    tableIncidents, \* IncidentTable: the incidents prop
    sortedIncidents, \* IncidentTable: the rows of the last render, <<>> before it
    activeIntervals, \* setInterval timers of the live-update effect not yet cleared
    inFlightAtLogout, \* history: how many waiting login() calls predate the last logout
    selectedIncident, \* useState<Incident | null>
    dismissed,      \* CriticalAlertBanner useState<string[]>
    selectedIds,    \* IncidentTable: the selectedIds prop
    requests,       \* report API: the HTTP requests received, oldest first
    reports         \* report API: the documents of the Report collection

vars == <<incidents, activityLogs, adminNotes, isLiveUpdates, now,
          user, isLoading, pendingLogins,
          notifications, dashboardStats, tableIncidents, sortedIncidents,
          activeIntervals, inFlightAtLogout, selectedIncident, dismissed,
          selectedIds, requests, reports>>

storeVars == <<incidents, activityLogs, adminNotes, isLiveUpdates>>
authVars == <<user, isLoading, pendingLogins>>
tableVars == <<tableIncidents, sortedIncidents>>
\* what no incident or note handler writes
uiVars == <<selectedIncident, dismissed, selectedIds>>
apiVars == <<requests, reports>>
viewVars == <<notifications, dashboardStats, tableVars, activeIntervals,
              inFlightAtLogout, uiVars, apiVars>>

----------------------------------------------------------------------------
(* Bounds of the model *)

MaxLog == 3        \* longest activity log explored (mock entries included)
MaxClock == 2      \* last clock value explored
MaxUpvotes == 1    \* highest upvote count explored
MaxPending == 2    \* most login() calls in flight at once
MaxNotes == 2      \* longest admin-note list explored
MaxRankLen == 3    \* longest incident list handed to the table
MaxRequests == 3   \* most HTTP requests the report router receives

----------------------------------------------------------------------------
(* Data *)

Undefined == <<>>

Some(x) == <<x>>

IsSet(opt) == opt # <<>>

IncidentStatus ==
    {"UNVERIFIED", "VERIFIED", "ASSIGNED", "IN_PROGRESS", "RESOLVED",
     "DUPLICATE", "FALSE"}

\* the statuses the detail panel offers to updateIncidentStatus
statusOptions == {"UNVERIFIED", "VERIFIED", "ASSIGNED", "IN_PROGRESS", "RESOLVED"}

\* the severities the detail panel offers to updateIncidentSeverity
severityOptions == {"LOW", "MEDIUM", "HIGH", "CRITICAL"}

TerminalStatuses == {"RESOLVED", "FALSE", "DUPLICATE"}

\* statuses at or after verification in the lifecycle
VerifiedOrLater == {"VERIFIED", "ASSIGNED", "IN_PROGRESS", "RESOLVED"}

\* the incident set the provider starts from and refreshData reloads:
\* two fresh reports, as the ingestion collaborator creates them
mockIncidents ==
    << [id |-> "INC-001", severity |-> "HIGH", status |-> "UNVERIFIED",
        createdAt |-> 0, updatedAt |-> 0, upvotes |-> 0, priority |-> 2,
        verifiedAt |-> Undefined, verifiedBy |-> Undefined,
        duplicateOf |-> Undefined],
       [id |-> "INC-002", severity |-> "LOW", status |-> "UNVERIFIED",
        createdAt |-> 0, updatedAt |-> 0, upvotes |-> 0, priority |-> 1,
        verifiedAt |-> Undefined, verifiedBy |-> Undefined,
        duplicateOf |-> Undefined] >>

mockActivityLogs ==
    << [id |-> <<"log", 0>>, incidentId |-> "INC-001", action |-> "STATUS_CHANGED",
        details |-> <<"Status changed to ", "UNVERIFIED">>,
        userId |-> "admin-001", userName |-> "John Commander",
        timestamp |-> 0] >>

mockAdminNotes == << >>

mockUser == [id |-> "admin-001", email |-> "admin@emergency.gov",
             name |-> "John Commander", role |-> "ADMIN"]

\* the aggregate counts of an incident set
StatsOf(incs) ==
    [totalActive |->
        Cardinality({k \in DOMAIN incs : incs[k].status \notin TerminalStatuses}),
     unverified |->
        Cardinality({k \in DOMAIN incs : incs[k].status = "UNVERIFIED"}),
     verifiedInProgress |->
        Cardinality({k \in DOMAIN incs :
                        incs[k].status \in {"VERIFIED", "ASSIGNED", "IN_PROGRESS"}}),
     resolvedToday |->
        Cardinality({k \in DOMAIN incs : incs[k].status = "RESOLVED"})]

\* the stats object the provider starts from: the counts of the mock incidents
mockDashboardStats == StatsOf(mockIncidents)

mockNotifications ==
    << [id |-> "notif-001", title |-> "New critical incident", read |-> FALSE],
       [id |-> "notif-002", title |-> "Incident verified", read |-> FALSE],
       [id |-> "notif-003", title |-> "System check", read |-> TRUE] >>

\* ids a caller may pass to markNotificationRead: two known, one unknown
NotificationIds == {"notif-001", "notif-002", "notif-404"}

\* ids a caller may pass: the two known incidents and one that matches none
IncidentIds == {"INC-001", "INC-002", "INC-404"}

\* reasons a caller may pass to markAsFalse: empty, whitespace-only, real
Reasons == {"", " ", "hoax"}

\* note contents a caller may pass to addAdminNote
Contents == {"", "follow-up"}

\* !text.trim(): the text is empty or whitespace only
IsBlank(text) == text \in {"", " "}

\* (email, password) pairs submitted to login
Credentials ==
    { <<"admin@emergency.gov", "admin123">>,
      <<"responder@emergency.gov", "responder123">>,
      <<"admin@emergency.gov", "letmein">> }

----------------------------------------------------------------------------
(* Helpers over the incident array *)

\* incidents.find(i => i.id === id), as a sequence of length at most one
FindIncident(incs, id) ==
    IF \E k \in DOMAIN incs : incs[k].id = id
    THEN Some(incs[CHOOSE k \in DOMAIN incs :
                     /\ incs[k].id = id
                     /\ \A j \in DOMAIN incs : incs[j].id = id => k <= j])
    ELSE Undefined

Exists(incs, id) == IsSet(FindIncident(incs, id))

Get(incs, id) == FindIncident(incs, id)[1]

----------------------------------------------------------------------------
(* EmergencyProvider *)

Init ==
    /\ incidents = mockIncidents
    /\ activityLogs = mockActivityLogs
    /\ adminNotes = mockAdminNotes
    /\ isLiveUpdates = TRUE
    /\ now = 1
    /\ user = Undefined
    /\ isLoading = FALSE
    /\ pendingLogins = << >>
    /\ notifications = mockNotifications
    /\ dashboardStats = mockDashboardStats
    /\ tableIncidents = << >>
    /\ sortedIncidents = << >>
    /\ activeIntervals = 1
    /\ inFlightAtLogout = 0
    /\ selectedIncident = Undefined
    /\ dismissed = << >>
    /\ selectedIds = << >>
    /\ requests = << >>
    /\ reports = << >>

\* the log entry addLog builds and the list it leaves behind
addLog(incidentId, action, details) ==
    /\ Len(activityLogs) < MaxLog
    /\ activityLogs' =
          << [id |-> <<"log", now>>, incidentId |-> incidentId,
              action |-> action, details |-> details,
              userId |-> "admin-001", userName |-> "John Commander",
              timestamp |-> now] >> \o activityLogs

\* updateIncidentStatus without the id test of the map callback
updateIncidentStatusEveryRecord(id, status) ==
    /\ incidents' = [k \in DOMAIN incidents |->
          [incidents[k] EXCEPT !.status = status, !.updatedAt = now]]
    /\ addLog(id, "STATUS_CHANGED", <<"Status changed to ", status>>)
    /\ UNCHANGED <<adminNotes, isLiveUpdates, now, authVars, viewVars>>

updateIncidentStatus(id, status) ==
    /\ incidents' = [k \in DOMAIN incidents |->
          IF incidents[k].id = id
          THEN [incidents[k] EXCEPT !.status = status, !.updatedAt = now]
          ELSE incidents[k]]
    /\ addLog(id, "STATUS_CHANGED", <<"Status changed to ", status>>)
    /\ UNCHANGED <<adminNotes, isLiveUpdates, now, authVars, viewVars>>

updateIncidentSeverity(id, severity) ==
    /\ incidents' = [k \in DOMAIN incidents |->
          IF incidents[k].id = id
          THEN [incidents[k] EXCEPT !.severity = severity, !.updatedAt = now]
          ELSE incidents[k]]
    /\ addLog(id, "SEVERITY_CHANGED", <<"Severity updated to ", severity>>)
    /\ UNCHANGED <<adminNotes, isLiveUpdates, now, authVars, viewVars>>

verifyIncident(id) ==
    /\ incidents' = [k \in DOMAIN incidents |->
          IF incidents[k].id = id
          THEN [incidents[k] EXCEPT !.status = "VERIFIED",
                                    !.verifiedAt = Some(now),
                                    !.verifiedBy = Some("admin-001"),
                                    !.updatedAt = now]
          ELSE incidents[k]]
    /\ addLog(id, "VERIFIED", <<"Incident verified by admin">>)
    /\ UNCHANGED <<adminNotes, isLiveUpdates, now, authVars, viewVars>>

markAsFalse(id, reason) ==
    /\ incidents' = [k \in DOMAIN incidents |->
          IF incidents[k].id = id
          THEN [incidents[k] EXCEPT !.status = "FALSE", !.updatedAt = now]
          ELSE incidents[k]]
    /\ addLog(id, "MARKED_FALSE", <<"Marked as false report: ", reason>>)
    /\ UNCHANGED <<adminNotes, isLiveUpdates, now, authVars, viewVars>>

markAsDuplicate(id, originalId) ==
    /\ incidents' = [k \in DOMAIN incidents |->
          IF incidents[k].id = id
          THEN [incidents[k] EXCEPT !.status = "DUPLICATE",
                                    !.duplicateOf = Some(originalId),
                                    !.updatedAt = now]
          ELSE incidents[k]]
    /\ addLog(id, "MARKED_DUPLICATE", <<"Marked as duplicate of ", originalId>>)
    /\ UNCHANGED <<adminNotes, isLiveUpdates, now, authVars, viewVars>>

addAdminNote(incidentId, content) ==
    /\ Len(adminNotes) < MaxNotes
    /\ adminNotes' =
          << [id |-> <<"note", now>>, incidentId |-> incidentId,
              content |-> content, authorId |-> "admin-001",
              authorName |-> "John Commander", createdAt |-> now] >>
          \o adminNotes
    /\ addLog(incidentId, "NOTE_ADDED", <<"Admin note added">>)
    /\ UNCHANGED <<incidents, isLiveUpdates, now, authVars, viewVars>>

\* toggleLiveUpdates keeping the timer of the previous effect run alive
toggleLiveUpdatesNoCleanup ==
    /\ isLiveUpdates' = ~isLiveUpdates
    /\ activeIntervals' = activeIntervals + (IF ~isLiveUpdates THEN 1 ELSE 0)
    /\ UNCHANGED <<incidents, activityLogs, adminNotes, now, authVars,
                   notifications, dashboardStats, tableVars, inFlightAtLogout,
                   uiVars, apiVars>>

\* the switch flips the flag; the interval effect depends on the flag, so its
\* cleanup clears the timer the previous run created (it created one only
\* while the flag was TRUE) and its new run creates one only if the flag is
\* now TRUE
toggleLiveUpdates ==
    /\ isLiveUpdates' = ~isLiveUpdates
    /\ activeIntervals' = activeIntervals
                            - (IF isLiveUpdates THEN 1 ELSE 0)
                            + (IF ~isLiveUpdates THEN 1 ELSE 0)
    /\ UNCHANGED <<incidents, activityLogs, adminNotes, now, authVars,
                   notifications, dashboardStats, tableVars, inFlightAtLogout,
                   uiVars, apiVars>>

refreshData ==
    /\ incidents' = mockIncidents
    /\ activityLogs' = mockActivityLogs
    /\ UNCHANGED <<adminNotes, isLiveUpdates, now, authVars, viewVars>>

\* the interval callback mapping over the incident list captured when the
\* effect ran, instead of over prev
UpvoteTickStaleClosure ==
    /\ activeIntervals > 0
    /\ \E bump \in [DOMAIN incidents -> {0, 1}] :
          /\ \A k \in DOMAIN incidents :
                incidents[k].upvotes + bump[k] <= MaxUpvotes
          /\ incidents' = [k \in DOMAIN incidents |->
                [mockIncidents[k] EXCEPT !.upvotes =
                    incidents[k].upvotes + bump[k]]]
    /\ UNCHANGED <<activityLogs, adminNotes, isLiveUpdates, now, authVars, viewVars>>

\* one firing of a live 10 s interval: every incident that is not RESOLVED
\* gains Math.floor(Math.random() * 2), that is 0 or 1, upvotes
UpvoteTick ==
    /\ activeIntervals > 0
    /\ \E bump \in [DOMAIN incidents -> {0, 1}] :
          /\ \A k \in DOMAIN incidents :
                incidents[k].status # "RESOLVED"
                    => incidents[k].upvotes + bump[k] <= MaxUpvotes
          /\ incidents' = [k \in DOMAIN incidents |->
                [incidents[k] EXCEPT !.upvotes =
                    IF incidents[k].status # "RESOLVED"
                    THEN incidents[k].upvotes + bump[k]
                    ELSE incidents[k].upvotes]]
    /\ UNCHANGED <<activityLogs, adminNotes, isLiveUpdates, now, authVars, viewVars>>

\* MarkRead flipping the flag instead of setting it
MarkReadToggle(ns, id) ==
    [k \in DOMAIN ns |->
        IF ns[k].id = id THEN [ns[k] EXCEPT !.read = ~ns[k].read] ELSE ns[k]]

\* prev.map(n => n.id === id ? { ...n, read: true } : n)
MarkRead(ns, id) ==
    [k \in DOMAIN ns |->
        IF ns[k].id = id THEN [ns[k] EXCEPT !.read = TRUE] ELSE ns[k]]

markNotificationRead(id) ==
    /\ notifications' = MarkRead(notifications, id)
    /\ UNCHANGED <<storeVars, now, authVars, dashboardStats, tableVars,
                   activeIntervals, inFlightAtLogout, uiVars, apiVars>>

\* notifications.filter(n => !n.read).length
getUnreadNotificationCount ==
    Cardinality({k \in DOMAIN notifications : ~notifications[k].read})

\* time passes between two handlers
ClockAdvance ==
    /\ now < MaxClock
    /\ now' = now + 1
    /\ UNCHANGED <<storeVars, authVars, viewVars>>

----------------------------------------------------------------------------
(* AuthProvider *)

\* login(), up to its await: the loading flag goes up and the call waits
LoginStart(email, password) ==
    /\ Len(pendingLogins) < MaxPending
    /\ isLoading' = TRUE
    /\ pendingLogins' = Append(pendingLogins, <<email, password>>)
    /\ UNCHANGED <<storeVars, now, user, viewVars>>

\* login(), after its await: the oldest waiting call resumes
LoginComplete ==
    /\ pendingLogins # << >>
    /\ LET email == Head(pendingLogins)[1]
           password == Head(pendingLogins)[2]
       IN  /\ user' =
                 IF email = "admin@emergency.gov" /\ password = "admin123"
                 THEN Some(mockUser)
                 ELSE IF email = "responder@emergency.gov"
                         /\ password = "responder123"
                      THEN Some([mockUser EXCEPT !.id = "responder-001",
                                     !.email = "responder@emergency.gov",
                                     !.name = "Alex Responder",
                                     !.role = "RESPONDER"])
                      ELSE user
           /\ isLoading' = FALSE
    /\ pendingLogins' = Tail(pendingLogins)
    /\ inFlightAtLogout' = IF inFlightAtLogout > 0 THEN inFlightAtLogout - 1 ELSE 0
    /\ UNCHANGED <<storeVars, now, notifications, dashboardStats, tableVars,
                   activeIntervals, uiVars, apiVars>>

\* no waiting login() call is cancelled: all of them are still in flight
logout ==
    /\ user' = Undefined
    /\ inFlightAtLogout' = Len(pendingLogins)
    /\ UNCHANGED <<storeVars, now, isLoading, pendingLogins, notifications,
                   dashboardStats, tableVars, activeIntervals, uiVars, apiVars>>

----------------------------------------------------------------------------
(* IncidentTable *)

\* compare without its two CRITICAL tests
compareNoCritical(a, b) ==
    IF a.priority # b.priority THEN b.priority - a.priority
    ELSE IF a.upvotes # b.upvotes THEN b.upvotes - a.upvotes
    ELSE a.createdAt - b.createdAt

\* compare with the operands of the upvotes difference swapped
compareUpvotesAscending(a, b) ==
    IF a.severity = "CRITICAL" /\ b.severity # "CRITICAL" THEN -1
    ELSE IF b.severity = "CRITICAL" /\ a.severity # "CRITICAL" THEN 1
    ELSE IF a.priority # b.priority THEN b.priority - a.priority
    ELSE IF a.upvotes # b.upvotes THEN a.upvotes - b.upvotes
    ELSE a.createdAt - b.createdAt

\* the comparator handed to sort: negative puts a first, positive b first
compare(a, b) ==
    IF a.severity = "CRITICAL" /\ b.severity # "CRITICAL" THEN -1
    ELSE IF b.severity = "CRITICAL" /\ a.severity # "CRITICAL" THEN 1
    ELSE IF a.priority # b.priority THEN b.priority - a.priority
    ELSE IF a.upvotes # b.upvotes THEN b.upvotes - a.upvotes
    ELSE a.createdAt - b.createdAt

\* InsertSorted putting x before the elements it ties with
InsertSortedBeforeTies(run, x) ==
    LET keep == {j \in DOMAIN run : compare(run[j], x) < 0}
        p == IF keep = {} THEN 0
             ELSE CHOOSE j \in keep : \A i \in keep : i <= j
    IN  SubSeq(run, 1, p) \o <<x>> \o SubSeq(run, p + 1, Len(run))

\* one step of the engine's insertion sort: x goes right after the last
\* element of the sorted run that does not have to come after it
InsertSorted(run, x) ==
    LET keep == {j \in DOMAIN run : compare(run[j], x) <= 0}
        p == IF keep = {} THEN 0
             ELSE CHOOSE j \in keep : \A i \in keep : i <= j
    IN  SubSeq(run, 1, p) \o <<x>> \o SubSeq(run, p + 1, Len(run))

RECURSIVE ArraySort(_)
\* Array.prototype.sort on a short array: elements are inserted left to right
ArraySort(arr) ==
    IF arr = << >> THEN << >>
    ELSE InsertSorted(ArraySort(SubSeq(arr, 1, Len(arr) - 1)), arr[Len(arr)])

\* IncidentTable sorting the prop itself, without the copy
IncidentTableInPlace ==
    /\ sortedIncidents' = ArraySort(tableIncidents)
    /\ tableIncidents' = ArraySort(tableIncidents)
    /\ UNCHANGED <<storeVars, now, authVars, notifications, dashboardStats,
                   activeIntervals, inFlightAtLogout, uiVars, apiVars>>

\* one render of the table: the rows are a sorted copy of the prop
IncidentTable ==
    /\ sortedIncidents' = ArraySort(tableIncidents)
    /\ UNCHANGED <<storeVars, now, authVars, notifications, dashboardStats,
                   tableIncidents, activeIntervals, inFlightAtLogout, uiVars,
                   apiVars>>

\* sort keys of the rows handed to the table
RankKeys ==
    [severity : {"CRITICAL", "HIGH"}, status : {"UNVERIFIED", "RESOLVED"},
     priority : {1, 2}, upvotes : {0, 1}, createdAt : {0, 1}]

RowId(k) == <<"INC", k>>

\* the rows with sort keys f[1] .. f[n]; ids are distinct
RankInput(f) ==
    [k \in DOMAIN f |->
        [id |-> RowId(k), severity |-> f[k].severity, status |-> f[k].status,
         priority |-> f[k].priority, upvotes |-> f[k].upvotes,
         createdAt |-> f[k].createdAt]]

----------------------------------------------------------------------------
(* EmergencyProvider: the selected incident *)

\* the setter of the selectedIncident state, handed out by the context
setSelectedIncident(incident) ==
    /\ selectedIncident' = incident
    /\ UNCHANGED <<storeVars, now, authVars, notifications, dashboardStats,
                   tableVars, activeIntervals, inFlightAtLogout, dismissed,
                   selectedIds, apiVars>>

\* the sync effect has work to do: a selection is set, the store holds a
\* record with its id, and that record is not the selected object (setting
\* the state to the object it already holds re-renders nothing)
SyncPending ==
    /\ IsSet(selectedIncident)
    /\ Exists(incidents, selectedIncident[1].id)
    /\ Get(incidents, selectedIncident[1].id) # selectedIncident[1]

\* the sync effect copying the record from the initial data set
SyncEffectFromMock ==
    /\ SyncPending
    /\ selectedIncident' = FindIncident(mockIncidents, selectedIncident[1].id)
    /\ UNCHANGED <<storeVars, now, authVars, notifications, dashboardStats,
                   tableVars, activeIntervals, inFlightAtLogout, dismissed,
                   selectedIds, apiVars>>

\* one run of the effect on [incidents, selectedIncident]: the selection is
\* replaced by the store's record with the same id
SyncEffect ==
    /\ SyncPending
    /\ selectedIncident' = FindIncident(incidents, selectedIncident[1].id)
    /\ UNCHANGED <<storeVars, now, authVars, notifications, dashboardStats,
                   tableVars, activeIntervals, inFlightAtLogout, dismissed,
                   selectedIds, apiVars>>

----------------------------------------------------------------------------
(* IncidentDetailPanel: the handlers behind its controls.  The panel shows  *)
(* the selected incident; every handler ends with toast.success(...).       *)

\* what a store operation hands back to its caller: each one is typed
\* (...) => void
OperationResult == Undefined

\* the Verify button is in the footer only while the shown status is UNVERIFIED
handleVerify ==
    /\ IsSet(selectedIncident)
    /\ selectedIncident[1].status = "UNVERIFIED"
    /\ verifyIncident(selectedIncident[1].id)

\* the footer button as above; Confirm is disabled while the reason is blank
handleMarkFalse(falseReason) ==
    /\ IsSet(selectedIncident)
    /\ selectedIncident[1].status = "UNVERIFIED"
    /\ ~IsBlank(falseReason)
    /\ markAsFalse(selectedIncident[1].id, falseReason)

\* the footer button as above; the Select offers every other incident that is
\* neither DUPLICATE nor FALSE
handleMarkDuplicate(duplicateId) ==
    /\ IsSet(selectedIncident)
    /\ selectedIncident[1].status = "UNVERIFIED"
    /\ duplicateId # selectedIncident[1].id
    /\ Exists(incidents, duplicateId)
    /\ Get(incidents, duplicateId).status \notin {"DUPLICATE", "FALSE"}
    /\ markAsDuplicate(selectedIncident[1].id, duplicateId)

\* if (!newNote.trim()) return;
handleAddNote(newNote) ==
    /\ IsSet(selectedIncident)
    /\ ~IsBlank(newNote)
    /\ addAdminNote(selectedIncident[1].id, newNote)

\* the status Select is always enabled and reports a change of value
handleStatusChange(status) ==
    /\ IsSet(selectedIncident)
    /\ status # selectedIncident[1].status
    /\ updateIncidentStatus(selectedIncident[1].id, status)

\* the severity Select is always enabled and reports a change of value
handleSeverityChange(severity) ==
    /\ IsSet(selectedIncident)
    /\ severity # selectedIncident[1].severity
    /\ updateIncidentSeverity(selectedIncident[1].id, severity)

----------------------------------------------------------------------------
(* CriticalAlertBanner *)

\* three open CRITICAL reports: one more than the banner has room for
bannerIncidents ==
    [k \in 1..3 |->
        [mockIncidents[1] EXCEPT !.id = <<"INC-001", "INC-002", "INC-003">>[k],
                                 !.severity = "CRITICAL"]]

BannerIds == {bannerIncidents[k].id : k \in DOMAIN bannerIncidents}

\* dismissed.includes(id)
Includes(ids, id) == \E k \in DOMAIN ids : ids[k] = id

\* the filter callback without its test of the dismissed list
IsCriticalAlertIgnoringDismissed(inc) ==
    /\ inc.severity = "CRITICAL"
    /\ inc.status # "RESOLVED"
    /\ inc.status # "FALSE"

\* the filter callback of criticalIncidents
IsCriticalAlert(inc) ==
    /\ inc.severity = "CRITICAL"
    /\ inc.status # "RESOLVED"
    /\ inc.status # "FALSE"
    /\ ~Includes(dismissed, inc.id)

criticalIncidents == SelectSeq(incidents, IsCriticalAlert)

\* the rows the banner renders: criticalIncidents.slice(0, 2)
bannerRows ==
    SubSeq(criticalIncidents, 1,
           IF Len(criticalIncidents) < 2 THEN Len(criticalIncidents) ELSE 2)

\* the X button of a rendered row
dismiss(id) ==
    /\ \E k \in DOMAIN bannerRows : bannerRows[k].id = id
    /\ dismissed' = Append(dismissed, id)
    /\ UNCHANGED <<storeVars, now, authVars, notifications, dashboardStats,
                   tableVars, activeIntervals, inFlightAtLogout,
                   selectedIncident, selectedIds, apiVars>>

----------------------------------------------------------------------------
(* IncidentTable: row selection *)

\* incidents.map(i => i.id)
IdsOf(rows) == [k \in DOMAIN rows |-> rows[k].id]

\* selectedIds.filter(i => i !== id)
Without(ids, id) == SelectSeq(ids, LAMBDA i : i # id)

\* the list toggleSelect hands to onSelectIds
toggleSelectIds(ids, id) ==
    IF Includes(ids, id) THEN Without(ids, id) ELSE Append(ids, id)

\* the checkbox of one row; onSelectIds stores the list as the next prop
toggleSelect(id) ==
    /\ selectedIds' = toggleSelectIds(selectedIds, id)
    /\ UNCHANGED <<storeVars, now, authVars, notifications, dashboardStats,
                   tableVars, activeIntervals, inFlightAtLogout,
                   selectedIncident, dismissed, apiVars>>

\* the checkbox of the header row
toggleSelectAll ==
    /\ selectedIds' = IF Len(selectedIds) = Len(tableIncidents)
                      THEN << >>
                      ELSE IdsOf(tableIncidents)
    /\ UNCHANGED <<storeVars, now, authVars, notifications, dashboardStats,
                   tableVars, activeIntervals, inFlightAtLogout,
                   selectedIncident, dismissed, apiVars>>

\* every incident the page can hand to the table
tableRows ==
    RankInput([k \in 1..MaxRankLen |->
                  [severity |-> "HIGH", status |-> "UNVERIFIED",
                   priority |-> 1, upvotes |-> 0, createdAt |-> k]])

\* the table is re-rendered with the rows numbered in shown as its incidents
\* prop; the selectedIds prop stays what it was
IncidentTableProps(shown) ==
    /\ tableIncidents' =
          SelectSeq(tableRows, LAMBDA row :
                        \E k \in shown : row.id = RowId(k))
    /\ UNCHANGED <<storeVars, now, authVars, notifications, dashboardStats,
                   sortedIncidents, activeIntervals, inFlightAtLogout, uiVars,
                   apiVars>>

----------------------------------------------------------------------------
(* Report API: the routes of the report router and the Report collection *)

\* request bodies of POST /: a complete report and one without its type
ReportBodies ==
    { [type |-> Some("FIRE"), description |-> Some("smoke in the hall")],
      [type |-> Undefined, description |-> Some("smoke in the hall")] }

\* reportSchema: type and description are required
Validates(body) == IsSet(body.type) /\ IsSet(body.description)

\* the document Report.create stores: the body plus the schema defaults
ReportDocument(body) ==
    [type |-> body.type[1], description |-> body.description[1],
     timestamp |-> now, status |-> "Pending", assignedTo |-> "Not Assigned"]

\* a request reaches the router; body is <<>> when the request carries none
Receive(method, body) ==
    /\ Len(requests) < MaxRequests
    /\ requests' = Append(requests,
          [method |-> method, body |-> body, settled |-> FALSE,
           responses |-> << >>])
    /\ UNCHANGED <<storeVars, now, authVars, notifications, dashboardStats,
                   tableVars, activeIntervals, inFlightAtLogout, uiVars,
                   reports>>

\* router.post("/"): Report.create resolves when the database answers and the
\* body validates, and rejects otherwise; the catch block answers a rejection
PostReport(k) ==
    /\ requests[k].method = "POST"
    /\ ~requests[k].settled
    /\ \E dbUp \in BOOLEAN :
          IF dbUp /\ Validates(requests[k].body[1])
          THEN /\ reports' = Append(reports, ReportDocument(requests[k].body[1]))
               /\ requests' = [requests EXCEPT
                     ![k].settled = TRUE,
                     ![k].responses = Append(@,
                         [status |-> 200, success |-> Some(TRUE)])]
          ELSE /\ reports' = reports
               /\ requests' = [requests EXCEPT
                     ![k].settled = TRUE,
                     ![k].responses = Append(@,
                         [status |-> 500, success |-> Some(FALSE)])]
    /\ UNCHANGED <<storeVars, now, authVars, notifications, dashboardStats,
                   tableVars, activeIntervals, inFlightAtLogout, uiVars>>

\* router.get("/"): there is no try/catch.  When Report.find rejects, the
\* async handler's promise rejects: a router that forwards rejections answers
\* with its default 500, a router that does not leaves the request unanswered
GetReports(k) ==
    /\ requests[k].method = "GET"
    /\ ~requests[k].settled
    /\ \E dbUp \in BOOLEAN, forwarded \in BOOLEAN :
          requests' = [requests EXCEPT
              ![k].settled = TRUE,
              ![k].responses =
                  IF dbUp
                  THEN Append(@, [status |-> 200, success |-> Undefined])
                  ELSE IF forwarded
                       THEN Append(@, [status |-> 500, success |-> Undefined])
                       ELSE @]
    /\ UNCHANGED <<storeVars, now, authVars, notifications, dashboardStats,
                   tableVars, activeIntervals, inFlightAtLogout, uiVars,
                   reports>>

----------------------------------------------------------------------------
(* Specifications *)

\* the incident lifecycle: every store operation on incident records, the
\* live-update timer and its switch, the refresh button, the clock
Next ==
    \/ \E id \in IncidentIds, status \in statusOptions :
          updateIncidentStatus(id, status)
    \/ \E id \in IncidentIds, severity \in severityOptions :
          updateIncidentSeverity(id, severity)
    \/ \E id \in IncidentIds : verifyIncident(id)
    \/ \E id \in IncidentIds, reason \in Reasons : markAsFalse(id, reason)
    \/ \E id \in IncidentIds, originalId \in IncidentIds :
          markAsDuplicate(id, originalId)
    \/ toggleLiveUpdates
    \/ refreshData
    \/ UpvoteTick
    \/ ClockAdvance

Spec == Init /\ [][Next]_vars

\* the notes tab of the detail panel, next to the status control and refresh
NextNotes ==
    \/ \E id \in IncidentIds, content \in Contents : addAdminNote(id, content)
    \/ \E id \in IncidentIds, status \in statusOptions :
          updateIncidentStatus(id, status)
    \/ refreshData
    \/ ClockAdvance

SpecNotes == Init /\ [][NextNotes]_vars

\* the store as used by a signed-in operator: sign-in, sign-out, verification
NextAuth ==
    \/ \E c \in Credentials : LoginStart(c[1], c[2])
    \/ LoginComplete
    \/ logout
    \/ \E id \in IncidentIds : verifyIncident(id)
    \/ ClockAdvance

SpecAuth == Init /\ [][NextAuth]_vars

\* a signed-in operator using the footer actions of the detail panel
NextRoles ==
    \/ \E c \in Credentials : LoginStart(c[1], c[2])
    \/ LoginComplete
    \/ logout
    \/ \E id \in IncidentIds, reason \in Reasons : markAsFalse(id, reason)
    \/ \E id \in IncidentIds, originalId \in IncidentIds :
          markAsDuplicate(id, originalId)

SpecRoles == Init /\ [][NextRoles]_vars

\* the notification popover, next to verification, the timer and refresh
NextNotif ==
    \/ \E id \in NotificationIds : markNotificationRead(id)
    \/ \E id \in IncidentIds : verifyIncident(id)
    \/ toggleLiveUpdates
    \/ refreshData
    \/ UpvoteTick
    \/ ClockAdvance

SpecNotif == Init /\ [][NextNotif]_vars

\* the table rendered on any list of incidents
InitRank ==
    /\ incidents = mockIncidents
    /\ activityLogs = mockActivityLogs
    /\ adminNotes = mockAdminNotes
    /\ isLiveUpdates = TRUE
    /\ now = 1
    /\ user = Undefined
    /\ isLoading = FALSE
    /\ pendingLogins = << >>
    /\ notifications = mockNotifications
    /\ dashboardStats = mockDashboardStats
    /\ \E n \in 0..MaxRankLen : \E f \in [1..n -> RankKeys] :
          tableIncidents = RankInput(f)
    /\ sortedIncidents = << >>
    /\ activeIntervals = 1
    /\ inFlightAtLogout = 0
    /\ selectedIncident = Undefined
    /\ dismissed = << >>
    /\ selectedIds = << >>
    /\ requests = << >>
    /\ reports = << >>

NextRank == IncidentTable

SpecRank == InitRank /\ [][NextRank]_vars

\* the selection next to what changes the records it mirrors
NextSelected ==
    \/ \E k \in DOMAIN incidents : setSelectedIncident(Some(incidents[k]))
    \/ setSelectedIncident(Undefined)
    \/ SyncEffect
    \/ \E id \in IncidentIds : verifyIncident(id)
    \/ refreshData
    \/ UpvoteTick

\* React runs every effect it has scheduled, so the sync effect cannot stay
\* pending forever
SpecSelected == Init /\ [][NextSelected]_vars /\ WF_vars(SyncEffect)

\* an operator working in the detail panel of the incident they opened
NextPanel ==
    \/ \E k \in DOMAIN incidents : setSelectedIncident(Some(incidents[k]))
    \/ SyncEffect
    \/ handleVerify
    \/ \E falseReason \in Reasons : handleMarkFalse(falseReason)
    \/ \E duplicateId \in IncidentIds : handleMarkDuplicate(duplicateId)
    \/ \E newNote \in Contents : handleAddNote(newNote)
    \/ \E status \in statusOptions : handleStatusChange(status)
    \/ \E severity \in severityOptions : handleSeverityChange(severity)
    \/ refreshData

SpecPanel == Init /\ [][NextPanel]_vars

\* the banner over a store that holds three open CRITICAL incidents
InitBanner ==
    /\ incidents = bannerIncidents
    /\ activityLogs = mockActivityLogs
    /\ adminNotes = mockAdminNotes
    /\ isLiveUpdates = TRUE
    /\ now = 1
    /\ user = Undefined
    /\ isLoading = FALSE
    /\ pendingLogins = << >>
    /\ notifications = mockNotifications
    /\ dashboardStats = mockDashboardStats
    /\ tableIncidents = << >>
    /\ sortedIncidents = << >>
    /\ activeIntervals = 1
    /\ inFlightAtLogout = 0
    /\ selectedIncident = Undefined
    /\ dismissed = << >>
    /\ selectedIds = << >>
    /\ requests = << >>
    /\ reports = << >>

NextBanner ==
    \/ \E id \in BannerIds : dismiss(id)
    \/ \E id \in BannerIds, severity \in {"HIGH", "CRITICAL"} :
          updateIncidentSeverity(id, severity)
    \/ \E id \in BannerIds, status \in {"UNVERIFIED", "RESOLVED"} :
          updateIncidentStatus(id, status)
    \/ \E id \in BannerIds : markAsFalse(id, "hoax")

SpecBanner == InitBanner /\ [][NextBanner]_vars

\* the table with its checkboxes, re-rendered by the page with other rows
InitSelection ==
    /\ incidents = mockIncidents
    /\ activityLogs = mockActivityLogs
    /\ adminNotes = mockAdminNotes
    /\ isLiveUpdates = TRUE
    /\ now = 1
    /\ user = Undefined
    /\ isLoading = FALSE
    /\ pendingLogins = << >>
    /\ notifications = mockNotifications
    /\ dashboardStats = mockDashboardStats
    /\ tableIncidents = tableRows
    /\ sortedIncidents = << >>
    /\ activeIntervals = 1
    /\ inFlightAtLogout = 0
    /\ selectedIncident = Undefined
    /\ dismissed = << >>
    /\ selectedIds = << >>
    /\ requests = << >>
    /\ reports = << >>

NextSelection ==
    \/ \E k \in DOMAIN tableIncidents : toggleSelect(tableIncidents[k].id)
    \/ toggleSelectAll
    \/ \E shown \in SUBSET (1..MaxRankLen) : IncidentTableProps(shown)
    \/ IncidentTable

SpecSelection == InitSelection /\ [][NextSelection]_vars

\* the report router serving its two routes
NextApi ==
    \/ \E body \in ReportBodies : Receive("POST", Some(body))
    \/ Receive("GET", Undefined)
    \/ \E k \in DOMAIN requests : PostReport(k)
    \/ \E k \in DOMAIN requests : GetReports(k)

SpecApi == Init /\ [][NextApi]_vars

----------------------------------------------------------------------------
(* Properties *)

\* a step of one of the four status-writing store operations
StatusCall ==
    \/ \E id \in IncidentIds : verifyIncident(id)
    \/ \E id \in IncidentIds, reason \in Reasons : markAsFalse(id, reason)
    \/ \E id \in IncidentIds, originalId \in IncidentIds :
          markAsDuplicate(id, originalId)
    \/ \E id \in IncidentIds, status \in statusOptions :
          updateIncidentStatus(id, status)

\* a step of any store operation that writes an incident record
TransitionCall ==
    \/ StatusCall
    \/ \E id \in IncidentIds, severity \in severityOptions :
          updateIncidentSeverity(id, severity)

\* old is what is left of new after dropping its first Len(new) - Len(old) entries
IsSuffix(old, new) ==
    /\ Len(old) <= Len(new)
    /\ SubSeq(new, Len(new) - Len(old) + 1, Len(new)) = old

\* C1: once an incident's status is RESOLVED, FALSE or DUPLICATE, no call of
\* verifyIncident, markAsFalse, markAsDuplicate or updateIncidentStatus
\* changes that incident's status.
C1_TerminalAbsorbing ==
    [][StatusCall =>
        \A k \in DOMAIN incidents :
            incidents[k].status \in TerminalStatuses
                => incidents'[k].status = incidents[k].status]_vars

\* C2: in every reachable state an incident is DUPLICATE exactly when its
\* duplicateOf is set, differs from its own id and names an existing incident
\* that is neither DUPLICATE nor FALSE.
C2_DuplicateIffValidTarget ==
    \A k \in DOMAIN incidents :
        (incidents[k].status = "DUPLICATE")
        <=> /\ IsSet(incidents[k].duplicateOf)
            /\ incidents[k].duplicateOf[1] # incidents[k].id
            /\ Exists(incidents, incidents[k].duplicateOf[1])
            /\ Get(incidents, incidents[k].duplicateOf[1]).status
                  \notin {"DUPLICATE", "FALSE"}

\* C3: markAsDuplicate(id, originalId) leaves the incident set and the
\* activity log unchanged when originalId equals id, names no incident, or
\* names an incident whose status is FALSE or DUPLICATE.
C3_MarkDuplicateRejects ==
    [][\A id \in IncidentIds, originalId \in IncidentIds :
        ( /\ markAsDuplicate(id, originalId)
          /\ \/ originalId = id
             \/ ~Exists(incidents, originalId)
             \/ Get(incidents, originalId).status \in {"FALSE", "DUPLICATE"} )
        => /\ incidents' = incidents
           /\ activityLogs' = activityLogs]_vars

\* C4: every incident that is VERIFIED, ASSIGNED, IN_PROGRESS or RESOLVED has
\* verifiedAt and verifiedBy set, and no step clears a stamp that is set.
C4_VerifiedStamps ==
    /\ [](\A k \in DOMAIN incidents :
            incidents[k].status \in VerifiedOrLater
                => /\ IsSet(incidents[k].verifiedAt)
                   /\ IsSet(incidents[k].verifiedBy))
    /\ [][\A k \in DOMAIN incidents :
            /\ IsSet(incidents[k].verifiedAt)
                  => IsSet(Get(incidents', incidents[k].id).verifiedAt)
            /\ IsSet(incidents[k].verifiedBy)
                  => IsSet(Get(incidents', incidents[k].id).verifiedBy)]_vars

\* C5: verifyIncident on an incident whose status is not UNVERIFIED leaves
\* that incident's status, verifiedAt and verifiedBy unchanged.
C5_VerifyOnlyUnverified ==
    [][\A id \in IncidentIds :
        ( /\ verifyIncident(id)
          /\ Exists(incidents, id)
          /\ Get(incidents, id).status # "UNVERIFIED" )
        => /\ Get(incidents', id).status = Get(incidents, id).status
           /\ Get(incidents', id).verifiedAt = Get(incidents, id).verifiedAt
           /\ Get(incidents', id).verifiedBy = Get(incidents, id).verifiedBy]_vars

\* C6: verifyIncident on an UNVERIFIED incident sets status VERIFIED, stamps
\* verifiedAt with the current time and verifiedBy with the id of the signed-in
\* user, and puts exactly one VERIFIED entry for that incident on the log.
C6_VerifyEffect ==
    [][\A id \in IncidentIds :
        ( /\ verifyIncident(id)
          /\ Exists(incidents, id)
          /\ Get(incidents, id).status = "UNVERIFIED"
          /\ IsSet(user) )
        => /\ Get(incidents', id).status = "VERIFIED"
           /\ Get(incidents', id).verifiedAt = Some(now)
           /\ Get(incidents', id).verifiedBy = Some(user[1].id)
           /\ Len(activityLogs') = Len(activityLogs) + 1
           /\ Tail(activityLogs') = activityLogs
           /\ Head(activityLogs').action = "VERIFIED"
           /\ Head(activityLogs').incidentId = id]_vars

\* C7: updateIncidentSeverity on a RESOLVED, FALSE or DUPLICATE incident
\* changes neither its severity nor the log; on any other incident it sets the
\* severity and changes nothing else but updatedAt.
C7_SeverityGuard ==
    [][\A id \in IncidentIds, severity \in severityOptions :
        ( /\ updateIncidentSeverity(id, severity)
          /\ Exists(incidents, id) )
        => IF Get(incidents, id).status \in TerminalStatuses
           THEN /\ Get(incidents', id).severity = Get(incidents, id).severity
                /\ activityLogs' = activityLogs
           ELSE Get(incidents', id) =
                    [Get(incidents, id) EXCEPT !.severity = severity,
                                               !.updatedAt = now]]_vars

\* C8: markAsFalse with an empty or whitespace-only reason changes no incident
\* and appends nothing to the activity log.
C8_BlankReasonRejected ==
    [][\A id \in IncidentIds, reason \in Reasons :
        ( markAsFalse(id, reason) /\ IsBlank(reason) )
        => /\ incidents' = incidents
           /\ activityLogs' = activityLogs]_vars

\* C9: no step loses or alters a log entry or adds more than one; a store
\* operation that changes an incident record adds exactly one entry at the
\* head; a store operation naming an id that matches no incident adds none.
C9_LogAppendOnly ==
    [][ /\ IsSuffix(activityLogs, activityLogs')
        /\ Len(activityLogs') <= Len(activityLogs) + 1
        /\ (TransitionCall /\ incidents' # incidents)
              => Tail(activityLogs') = activityLogs
        /\ \A id \in IncidentIds :
              ( /\ ~Exists(incidents, id)
                /\ \/ verifyIncident(id)
                   \/ \E reason \in Reasons : markAsFalse(id, reason)
                   \/ \E originalId \in IncidentIds : markAsDuplicate(id, originalId)
                   \/ \E status \in statusOptions : updateIncidentStatus(id, status)
                   \/ \E severity \in severityOptions :
                         updateIncidentSeverity(id, severity) )
              => activityLogs' = activityLogs ]_vars

\* C10: upvotes are never negative, and no step lowers the upvotes of an
\* incident whose status is outside RESOLVED, FALSE, DUPLICATE before and
\* after the step.
C10_UpvotesMonotone ==
    /\ [](\A k \in DOMAIN incidents : incidents[k].upvotes >= 0)
    /\ [][\A k \in DOMAIN incidents :
            ( /\ incidents[k].status \notin TerminalStatuses
              /\ Get(incidents', incidents[k].id).status \notin TerminalStatuses )
            => Get(incidents', incidents[k].id).upvotes >= incidents[k].upvotes]_vars

\* C11: while the signed-in user is a RESPONDER, no markAsFalse or
\* markAsDuplicate call changes any incident's status or duplicateOf.
C11_ResponderCannotDiscard ==
    [][( /\ IsSet(user)
         /\ user[1].role = "RESPONDER"
         /\ \/ \E id \in IncidentIds, reason \in Reasons : markAsFalse(id, reason)
            \/ \E id \in IncidentIds, originalId \in IncidentIds :
                  markAsDuplicate(id, originalId) )
        => \A k \in DOMAIN incidents :
              /\ incidents'[k].status = incidents[k].status
              /\ incidents'[k].duplicateOf = incidents[k].duplicateOf]_vars

\* C12: in every reachable state the stats shown on the dashboard are the
\* counts of the current incident set.
C12_StatsFollowIncidents == dashboardStats = StatsOf(incidents)

\* C13: no step edits or removes a note; addAdminNote changes no incident,
\* appends one note when content is non-empty, whatever the incident's status,
\* and with empty content appends neither a note nor a log entry.
C13_AddNoteValidation ==
    [][ /\ IsSuffix(adminNotes, adminNotes')
        /\ \A id \in IncidentIds, content \in Contents :
              addAdminNote(id, content)
              => /\ incidents' = incidents
                 /\ IF content = ""
                    THEN /\ adminNotes' = adminNotes
                         /\ activityLogs' = activityLogs
                    ELSE /\ Tail(adminNotes') = adminNotes
                         /\ Head(adminNotes').content = content
                         /\ Head(adminNotes').incidentId = id ]_vars

\* the CRITICAL group or the non-CRITICAL group
SameGroup(a, b) == (a.severity = "CRITICAL") <=> (b.severity = "CRITICAL")

\* C14: in the rendered rows every CRITICAL incident comes before every
\* incident that is not CRITICAL.
C14_CriticalFirst ==
    \A i \in DOMAIN sortedIncidents, j \in DOMAIN sortedIncidents :
        ( /\ sortedIncidents[i].severity = "CRITICAL"
          /\ sortedIncidents[j].severity # "CRITICAL" ) => i < j

\* a CRITICAL row of low priority, few upvotes and late creation was handed
\* in last, behind non-CRITICAL rows of high priority, and is rendered first
C14_Witness ==
    /\ Len(sortedIncidents) = 3
    /\ tableIncidents[1].severity # "CRITICAL" /\ tableIncidents[1].priority = 2
    /\ tableIncidents[2].severity # "CRITICAL" /\ tableIncidents[2].upvotes = 1
    /\ tableIncidents[3].severity = "CRITICAL"
    /\ tableIncidents[3].priority = 1 /\ tableIncidents[3].upvotes = 0
    /\ tableIncidents[3].createdAt = 1
    /\ tableIncidents[3].status = "RESOLVED"
    /\ sortedIncidents[1].id = RowId(3)

\* C15: two rendered rows of the same group are ordered by higher priority,
\* then higher upvotes, then earlier createdAt.
C15_OrderWithinGroup ==
    \A i \in DOMAIN sortedIncidents, j \in DOMAIN sortedIncidents :
        ( i < j /\ SameGroup(sortedIncidents[i], sortedIncidents[j]) )
        => LET a == sortedIncidents[i]
               b == sortedIncidents[j]
           IN  \/ a.priority > b.priority
               \/ /\ a.priority = b.priority
                  /\ a.upvotes > b.upvotes
               \/ /\ a.priority = b.priority
                  /\ a.upvotes = b.upvotes
                  /\ a.createdAt <= b.createdAt

\* three rows of one group handed in in exactly the reverse order: the ranks
\* are decided by priority, then upvotes, then createdAt
C15_Witness ==
    /\ Len(sortedIncidents) = 3
    /\ \A k \in 1..3 : tableIncidents[k].severity = "HIGH"
    /\ tableIncidents[3].priority = 2
    /\ tableIncidents[2].priority = 1 /\ tableIncidents[2].upvotes = 1
    /\ tableIncidents[1].priority = 1 /\ tableIncidents[1].upvotes = 0
    /\ sortedIncidents =
          <<tableIncidents[3], tableIncidents[2], tableIncidents[1]>>

\* rows that tie on every sort key
TieOnKeys(a, b) ==
    /\ SameGroup(a, b)
    /\ a.priority = b.priority
    /\ a.upvotes = b.upvotes
    /\ a.createdAt = b.createdAt

\* the position of the row with this id in a list of rows with distinct ids
PositionOf(rows, id) == CHOOSE k \in DOMAIN rows : rows[k].id = id

\* C16: the rendered rows are a permutation of the prop, rows that tie on
\* every sort key keep their relative order, and rendering leaves the prop as
\* it was.
C16_StablePermutation ==
    /\ [](sortedIncidents # << >>
            => /\ Len(sortedIncidents) = Len(tableIncidents)
               /\ {sortedIncidents[k] : k \in DOMAIN sortedIncidents}
                     = {tableIncidents[k] : k \in DOMAIN tableIncidents}
               /\ \A i \in DOMAIN tableIncidents, j \in DOMAIN tableIncidents :
                     ( i < j /\ TieOnKeys(tableIncidents[i], tableIncidents[j]) )
                     => PositionOf(sortedIncidents, tableIncidents[i].id)
                           < PositionOf(sortedIncidents, tableIncidents[j].id))
    /\ [][tableIncidents' = tableIncidents]_vars

\* scenario 4 of the specification: HIGH, CRITICAL, HIGH with equal keys is
\* rendered as the CRITICAL row, then the other two in their input order
C16_Witness ==
    /\ Len(sortedIncidents) = 3
    /\ tableIncidents[1].severity = "HIGH"
    /\ tableIncidents[2].severity = "CRITICAL"
    /\ tableIncidents[3].severity = "HIGH"
    /\ TieOnKeys(tableIncidents[1], tableIncidents[3])
    /\ sortedIncidents =
          <<tableIncidents[2], tableIncidents[1], tableIncidents[3]>>

\* C17: sorting the rendered rows again returns them unchanged.
C17_RankIdempotent ==
    sortedIncidents # << >> => ArraySort(sortedIncidents) = sortedIncidents

\* the rows were reordered by the first sort and two of them tie on every key
C17_Witness ==
    /\ Len(sortedIncidents) = 3
    /\ sortedIncidents # tableIncidents
    /\ TieOnKeys(sortedIncidents[2], sortedIncidents[3])
    /\ ~TieOnKeys(sortedIncidents[1], sortedIncidents[2])

\* C18: no step turns a read flag back to false or changes anything but read
\* flags; markNotificationRead changes nothing when the id is unknown, touches
\* only the notification with that id, and a second call with the same id
\* leaves the list as the first call left it.
C18_MarkReadIdempotent ==
    [][ /\ Len(notifications') = Len(notifications)
        /\ \A k \in DOMAIN notifications :
              /\ notifications[k].read => notifications'[k].read
              /\ [notifications'[k] EXCEPT !.read = notifications[k].read]
                    = notifications[k]
        /\ \A id \in NotificationIds :
              markNotificationRead(id)
              => /\ MarkRead(notifications', id) = notifications'
                 /\ \A k \in DOMAIN notifications :
                       notifications[k].id # id
                          => notifications'[k] = notifications[k] ]_vars

\* both unread notifications have been marked read, one call each
C18_Witness ==
    /\ \A k \in DOMAIN notifications : notifications[k].read
    /\ Len(notifications) = Len(mockNotifications)

\* C19: no step adds or removes an incident or changes an id or createdAt, and
\* a store operation on incident X leaves every record but X's as it was.
C19_SingleRecordFrame ==
    [][ /\ Len(incidents') = Len(incidents)
        /\ \A k \in DOMAIN incidents :
              /\ incidents'[k].id = incidents[k].id
              /\ incidents'[k].createdAt = incidents[k].createdAt
        /\ \A id \in IncidentIds :
              ( \/ verifyIncident(id)
                \/ \E reason \in Reasons : markAsFalse(id, reason)
                \/ \E originalId \in IncidentIds : markAsDuplicate(id, originalId)
                \/ \E status \in statusOptions : updateIncidentStatus(id, status)
                \/ \E severity \in severityOptions :
                      updateIncidentSeverity(id, severity) )
              => \A k \in DOMAIN incidents :
                    incidents[k].id # id => incidents'[k] = incidents[k] ]_vars

\* two operations have run on INC-001 and INC-002 is still the mock record
C19_Witness ==
    /\ Len(activityLogs) = Len(mockActivityLogs) + 2
    /\ activityLogs[1].incidentId = "INC-001"
    /\ activityLogs[2].incidentId = "INC-001"
    /\ incidents[1].status = "RESOLVED"
    /\ incidents[1].severity = "CRITICAL"
    /\ incidents[2] = mockIncidents[2]

\* C20: an upvote tick changes no field but upvotes and never lowers them, and
\* a store operation on incident records changes no upvotes, so neither order
\* of a tick and an operation loses the other's write.
C20_TickSerializes ==
    [][ /\ UpvoteTick
           => \A k \in DOMAIN incidents :
                 /\ [incidents'[k] EXCEPT !.upvotes = incidents[k].upvotes]
                       = incidents[k]
                 /\ incidents'[k].upvotes >= incidents[k].upvotes
        /\ TransitionCall
           => \A k \in DOMAIN incidents :
                 incidents'[k].upvotes = incidents[k].upvotes ]_vars

\* INC-001 carries both a tick's upvote and the writes of verifyIncident and
\* updateIncidentSeverity
C20_Witness ==
    /\ incidents[1].upvotes = 1
    /\ incidents[1].status = "VERIFIED"
    /\ IsSet(incidents[1].verifiedAt)
    /\ incidents[1].severity = "LOW"
    /\ Len(activityLogs) = Len(mockActivityLogs) + 2

\* a step of a detail-panel handler that changes the status or the severity
\* of the shown incident; each of them then calls toast.success
PanelTransition ==
    \/ handleVerify
    \/ \E falseReason \in Reasons : handleMarkFalse(falseReason)
    \/ \E duplicateId \in IncidentIds : handleMarkDuplicate(duplicateId)
    \/ \E status \in statusOptions : handleStatusChange(status)
    \/ \E severity \in severityOptions : handleSeverityChange(severity)

\* the results an operation may report
ResultKinds == {"Success", "NotFound", "Validation", "InvalidTransition"}

\* C21: every store operation called by a panel handler hands its caller
\* success or one of the error kinds NotFound, Validation, InvalidTransition,
\* and a handler announces success only for an operation that succeeded: the
\* incident it changed was not RESOLVED, FALSE or DUPLICATE.
C21_SuccessOnlyAfterSuccess ==
    [][PanelTransition =>
          /\ IsSet(OperationResult)
          /\ OperationResult[1] \in ResultKinds
          /\ Get(incidents, selectedIncident[1].id).status
                \notin TerminalStatuses]_vars

\* C22: one tick leaves the upvotes of every RESOLVED, FALSE or DUPLICATE
\* incident as they were and raises the upvotes of every other incident by 0
\* or 1.
C22_TickSkipsTerminal ==
    [][UpvoteTick =>
          \A k \in DOMAIN incidents :
              IF incidents[k].status \in TerminalStatuses
              THEN incidents'[k].upvotes = incidents[k].upvotes
              ELSE incidents'[k].upvotes - incidents[k].upvotes \in {0, 1}]_vars

\* C23: whenever at least one login call is waiting for its delay to elapse,
\* isLoading is TRUE.
C23_LoadingTruthful == pendingLogins # << >> => isLoading

\* C24: a login call that was already waiting when logout ran leaves the user
\* null when it completes.
C24_LogoutFinal ==
    [][(LoginComplete /\ inFlightAtLogout > 0) => user' = Undefined]_vars

\* C25: whenever an incident is selected and the store holds a record with
\* its id, the selection eventually equals that record (unless the selection
\* is cleared or moved to another incident first); a run of the sync effect
\* keeps the selected id and leaves the effect with nothing more to do.
C25_SelectedFollowsStore ==
    /\ \A id \in IncidentIds :
          ( /\ IsSet(selectedIncident)
            /\ selectedIncident[1].id = id
            /\ Exists(incidents, id) )
          ~> ( \/ ~IsSet(selectedIncident)
               \/ selectedIncident[1].id # id
               \/ selectedIncident[1] = Get(incidents, id) )
    /\ [][SyncEffect =>
            /\ selectedIncident'[1].id = selectedIncident[1].id
            /\ ~SyncPending']_vars

\* an incident is selected and mirrors a store record that a verification and
\* a tick have changed since the data was loaded
C25_Witness ==
    /\ IsSet(selectedIncident)
    /\ ~SyncPending
    /\ selectedIncident[1].status = "VERIFIED"
    /\ selectedIncident[1].upvotes > 0
    /\ selectedIncident[1] = Get(incidents, selectedIncident[1].id)

\* C26: exactly one interval timer is active while isLiveUpdates is TRUE and
\* none while it is FALSE, however often the switch is flipped; while
\* isLiveUpdates is FALSE no step other than refreshData changes the upvotes
\* of an incident.
C26_TimerFollowsSwitch ==
    /\ [](activeIntervals = IF isLiveUpdates THEN 1 ELSE 0)
    /\ [][(~isLiveUpdates /\ ~refreshData) =>
            \A k \in DOMAIN incidents :
                incidents'[k].upvotes = incidents[k].upvotes]_vars

\* live updates were switched off after a tick had raised an upvote count
C26_Witness ==
    /\ ~isLiveUpdates
    /\ activeIntervals = 0
    /\ \E k \in DOMAIN incidents : incidents[k].upvotes > 0

\* C27: no two entries of the activity log share an id, and no two admin
\* notes share an id.
C27_IdsUnique ==
    /\ \A i, j \in DOMAIN activityLogs :
          i # j => activityLogs[i].id # activityLogs[j].id
    /\ \A i, j \in DOMAIN adminNotes :
          i # j => adminNotes[i].id # adminNotes[j].id

\* C28: the banner renders at most two rows, each a CRITICAL incident that is
\* neither RESOLVED nor FALSE and is not in the dismissed list; a dismissed id
\* stays dismissed and is on no later banner.
C28_BannerSafe ==
    /\ [](/\ Len(bannerRows) <= 2
          /\ \A k \in DOMAIN bannerRows :
                /\ bannerRows[k].severity = "CRITICAL"
                /\ bannerRows[k].status \notin {"RESOLVED", "FALSE"}
                /\ ~Includes(dismissed, bannerRows[k].id))
    /\ [][\A id \in BannerIds :
            Includes(dismissed, id) =>
                /\ Includes(dismissed', id)
                /\ \A k \in DOMAIN bannerRows' : bannerRows'[k].id # id]_vars

\* a dismissed incident is CRITICAL and open again after later changes, and
\* the banner is full with two other incidents
C28_Witness ==
    /\ Len(bannerRows) = 2
    /\ Len(activityLogs) > Len(mockActivityLogs)
    /\ \E k \in DOMAIN incidents :
          /\ Includes(dismissed, incidents[k].id)
          /\ incidents[k].severity = "CRITICAL"
          /\ incidents[k].status = "UNVERIFIED"
          /\ incidents[k] # bannerIncidents[k]

\* C29: every request whose handler has run to its end has exactly one
\* response; a create answers 500 with success = false exactly when it stored
\* nothing, and 200 with success = true otherwise.
C29_OneResponse ==
    /\ [](\A k \in DOMAIN requests :
            requests[k].settled => Len(requests[k].responses) = 1)
    /\ [][\A k \in DOMAIN requests :
            PostReport(k) =>
                IF reports' = reports
                THEN requests'[k].responses =
                        <<[status |-> 500, success |-> Some(FALSE)]>>
                ELSE requests'[k].responses =
                        <<[status |-> 200, success |-> Some(TRUE)]>>]_vars

\* the ids of a list, as a set
IdSet(ids) == {ids[k] : k \in DOMAIN ids}

\* C30: toggleSelectAll empties the selection when every displayed incident
\* is selected and otherwise sets it to exactly the displayed ids;
\* toggleSelect applied twice to an id selects the same incidents as before.
C30_SelectAll ==
    /\ [][toggleSelectAll =>
            selectedIds' =
                IF IdSet(IdsOf(tableIncidents)) \subseteq IdSet(selectedIds)
                THEN << >>
                ELSE IdsOf(tableIncidents)]_vars
    /\ [](\A k \in DOMAIN tableRows :
            IdSet(toggleSelectIds(toggleSelectIds(selectedIds, tableRows[k].id),
                                  tableRows[k].id))
                = IdSet(selectedIds))
====
